---- MODULE Spec2Model ----
(***************************************************************************)
(* Model of the prescription consolidation pipeline                        *)
(* (scripts/build_prescricoes_parquet.py) and of the read-only checks the   *)
(* other scripts run over its output.  Text values and column names are     *)
(* TLA+ strings; a missing value (polars null) is the reserved value Null.  *)
(***************************************************************************)
EXTENDS Integers, Sequences, FiniteSets, TLC

\* ------------------------------------------------------------------ bounds
MaxLen == 6          \* longest text given to the key normalizer
MaxRows == 2         \* data rows of all source files together
MaxDictRows == 2     \* data rows of the dictionary

\* ------------------------------------------------------------ text helpers
\* polars null; a reserved string no text of the model equals (TLC compares
\* strings only with strings), tested before every string operation
Null == "<null>"

LowerLetters == "abcdefghijklmnopqrstuvwxyz"
UpperLetters == "ABCDEFGHIJKLMNOPQRSTUVWXYZ"

CharAt(s, i) == SubSeq(s, i, i)

\* the characters the regex class \s and strip_chars() treat as whitespace
IsSpace(c) == c \in {" ", "\t", "\n", "\r"}

IsDigit(c) == c \in {"0", "1", "2", "3", "4", "5", "6", "7", "8", "9"}

UpperChar(c) ==
    IF \E i \in 1..Len(LowerLetters) : CharAt(LowerLetters, i) = c
    THEN LET i == CHOOSE j \in 1..Len(LowerLetters) : CharAt(LowerLetters, j) = c
         IN  CharAt(UpperLetters, i)
    ELSE c

RECURSIVE to_uppercase(_)
to_uppercase(s) ==
    IF Len(s) = 0 THEN s
    ELSE UpperChar(CharAt(s, 1)) \o to_uppercase(SubSeq(s, 2, Len(s)))

LowerChar(c) ==
    IF \E i \in 1..Len(UpperLetters) : CharAt(UpperLetters, i) = c
    THEN LET i == CHOOSE j \in 1..Len(UpperLetters) : CharAt(UpperLetters, j) = c
         IN  CharAt(LowerLetters, i)
    ELSE c

RECURSIVE to_lowercase(_)
to_lowercase(s) ==
    IF Len(s) = 0 THEN s
    ELSE LowerChar(CharAt(s, 1)) \o to_lowercase(SubSeq(s, 2, Len(s)))

RECURSIVE StripStart(_)
StripStart(s) ==
    IF Len(s) > 0 /\ IsSpace(CharAt(s, 1)) THEN StripStart(SubSeq(s, 2, Len(s)))
    ELSE s

RECURSIVE StripEnd(_)
StripEnd(s) ==
    IF Len(s) > 0 /\ IsSpace(CharAt(s, Len(s))) THEN StripEnd(SubSeq(s, 1, Len(s) - 1))
    ELSE s

strip_chars(s) == StripEnd(StripStart(s))

\* index of the last character of the whitespace run that starts at i
RECURSIVE RunEnd(_, _)
RunEnd(s, i) ==
    IF i < Len(s) /\ IsSpace(CharAt(s, i + 1)) THEN RunEnd(s, i + 1) ELSE i

\* mutant of str_replace: the first whitespace run is deleted (replacement "")
str_replace_deleting(s) ==
    IF \E i \in 1..Len(s) : IsSpace(CharAt(s, i))
    THEN LET i == CHOOSE j \in 1..Len(s) :
                     /\ IsSpace(CharAt(s, j))
                     /\ \A k \in 1..(j - 1) : ~IsSpace(CharAt(s, k))
         IN  SubSeq(s, 1, i - 1) \o SubSeq(s, RunEnd(s, i) + 1, Len(s))
    ELSE s

\* Expr.str.replace(r"\s+", " "): the FIRST (leftmost) match only is replaced
str_replace(s) ==
    IF \E i \in 1..Len(s) : IsSpace(CharAt(s, i))
    THEN LET i == CHOOSE j \in 1..Len(s) :
                     /\ IsSpace(CharAt(s, j))
                     /\ \A k \in 1..(j - 1) : ~IsSpace(CharAt(s, k))
         IN  SubSeq(s, 1, i - 1) \o " " \o SubSeq(s, RunEnd(s, i) + 1, Len(s))
    ELSE s

\* normalize_key_expr: null stays null through every string operation
normalize_key_expr(v) ==
    IF v = Null THEN Null ELSE str_replace(strip_chars(to_uppercase(v)))

\* filter_controlled_parquet.normalize_text_expr: the lowercase profile
normalize_text_expr(v) ==
    IF v = Null THEN Null ELSE str_replace(strip_chars(to_lowercase(v)))

\* three-valued booleans of polars: "T", "F" and Null
\* Expr.eq(literal): null when the value is null
eq(v, literal) == IF v = Null THEN Null ELSE IF v = literal THEN "T" ELSE "F"

\* Expr.str.contains(pattern) for a pattern without metacharacters
str_contains(v, pattern) ==
    IF v = Null THEN Null
    ELSE IF \E k \in 1..(Len(v) - Len(pattern) + 1) :
               SubSeq(v, k, k + Len(pattern) - 1) = pattern
         THEN "T" ELSE "F"

\* mutant of kleene_or: a null operand makes the result null
or_null_propagating(a, b) ==
    IF a = Null \/ b = Null THEN Null
    ELSE IF a = "T" \/ b = "T" THEN "T" ELSE "F"

\* Expr.__or__ on booleans: true when either side is true, else null when
\* either side is null
kleene_or(a, b) ==
    IF a = "T" \/ b = "T" THEN "T"
    ELSE IF a = Null \/ b = Null THEN Null
    ELSE "F"

\* --------------------------------------------------- names, order, numbers
\* the characters of the model's names, in code-point order (Python's str order)
CodePoints == " -.0123456789<>ABCDEFGHIJKLMNOPQRSTUVWXYZ_abcdefghijklmnopqrstuvwxyz"

Ord(c) == CHOOSE i \in 1..Len(CodePoints) : CharAt(CodePoints, i) = c

RECURSIVE StrLess(_, _)
StrLess(a, b) ==
    IF Len(b) = 0 THEN FALSE
    ELSE IF Len(a) = 0 THEN TRUE
    ELSE IF CharAt(a, 1) = CharAt(b, 1)
         THEN StrLess(SubSeq(a, 2, Len(a)), SubSeq(b, 2, Len(b)))
         ELSE Ord(CharAt(a, 1)) < Ord(CharAt(b, 1))

\* sorted(S) for a set of strings
RECURSIVE sorted(_)
sorted(S) ==
    IF S = {} THEN <<>>
    ELSE LET m == CHOOSE x \in S : \A y \in S : x = y \/ StrLess(x, y)
         IN  <<m>> \o sorted(S \ {m})

Range(q) == {q[i] : i \in 1..Len(q)}

StartsWith(s, prefix) ==
    Len(s) >= Len(prefix) /\ SubSeq(s, 1, Len(prefix)) = prefix

RECURSIVE Flatten(_)
Flatten(qq) == IF Len(qq) = 0 THEN <<>> ELSE qq[1] \o Flatten(Tail(qq))

\* str.zfill(width): zeros on the left up to width, longer strings unchanged
RECURSIVE zfill(_, _)
zfill(s, width) == IF Len(s) >= width THEN s ELSE zfill("0" \o s, width)

\* the column names polars gives a CSV header: a repeated name gets the
\* suffix _duplicated_<n>, n counting its earlier repetitions from 0
CsvColumns(header) ==
    [i \in 1..Len(header) |->
        LET k == Cardinality({j \in 1..(i - 1) : header[j] = header[i]})
        IN  IF k = 0 THEN header[i]
            ELSE header[i] \o "_duplicated_" \o ToString(k - 1)]

\* ------------------------------------------------------------ data frames
\* A CSV file is [name, header, rows]: the raw header names and, per data
\* row, the cells in header order.  A frame is [cols, rows]: the column names
\* in order and, per row, a function from column name to value.

\* pl.read_csv / pl.scan_csv: columns named by CsvColumns, one row per data row
read_csv(file) ==
    LET cols == CsvColumns(file.header)
    IN  [cols |-> cols,
         rows |-> [i \in 1..Len(file.rows) |->
                     [c \in Range(cols) |->
                        file.rows[i][CHOOSE k \in 1..Len(cols) : cols[k] = c]]]]

\* DataFrame.drop(names)
drop(df, names) ==
    LET kept == SelectSeq(df.cols, LAMBDA c : c \notin names)
    IN  [cols |-> kept,
         rows |-> [i \in 1..Len(df.rows) |-> [c \in Range(kept) |-> df.rows[i][c]]]]

\* with_columns(expr.alias(name)): an existing column is replaced in place,
\* a new one is appended; values[i] is the expression evaluated on row i
with_columns(df, name, values) ==
    [cols |-> IF name \in Range(df.cols) THEN df.cols ELSE Append(df.cols, name),
     rows |-> [i \in 1..Len(df.rows) |->
                 [c \in Range(df.cols) \cup {name} |->
                    IF c = name THEN values[i] ELSE df.rows[i][c]]]]

\* an expression evaluated on every row of a frame: pl.lit(v)
lit(df, v) == [i \in 1..Len(df.rows) |-> v]

\* normalize_key_expr(pl.col(c)) evaluated on every row of a frame
normalized_col(df, c) == [i \in 1..Len(df.rows) |-> normalize_key_expr(df.rows[i][c])]

\* sanitize_df_columns: columns whose name is empty after strip() are dropped
sanitize_df_columns(df) ==
    drop(df, {c \in Range(df.cols) : strip_chars(c) = ""})

AliasColumns == <<"PRINCIPIO_ATIVO", "PRINCIPIO_ATIVO_1", "PRINCIPIO_ATIVO_2">>

\* key_cols of build_dict_table: the alias columns the dictionary has
key_cols_of(df) == SelectSeq(AliasColumns, LAMBDA c : c \in Range(df.cols))

RECURSIVE WithNormColumns(_, _)
WithNormColumns(df, keys) ==
    IF Len(keys) = 0 THEN df
    ELSE WithNormColumns(
             with_columns(df, "norm_" \o keys[1], normalized_col(df, keys[1])),
             Tail(keys))

\* descriptor_cols: every column that is neither an alias nor a norm_ column
descriptor_cols_of(df, keys) ==
    SelectSeq(df.cols, LAMBDA c : c \notin Range(keys) /\ ~StartsWith(c, "norm_"))

\* DataFrame.unpivot(index, on, variable_name="alias_col", value_name="key_norm"):
\* all rows for the first "on" column, then all rows for the second, ...
unpivot(df, index, on) ==
    [cols |-> index \o <<"alias_col", "key_norm">>,
     rows |-> Flatten([a \in 1..Len(on) |->
                 [i \in 1..Len(df.rows) |->
                    [c \in Range(index) \cup {"alias_col", "key_norm"} |->
                       IF c = "alias_col" THEN on[a]
                       ELSE IF c = "key_norm" THEN df.rows[i][on[a]]
                       ELSE df.rows[i][c]]]])]

\* mutant of unique: no deduplication, every row is kept
unique_keeping_all(rows) == {1..Len(rows)}

\* DataFrame.unique(subset=["key_norm"]) with the default keep="any": one row
\* per key survives and polars does not say which.  The result is the set of
\* the index sets that may survive.
unique(rows) ==
    {keep \in SUBSET (1..Len(rows)) :
        \A i \in 1..Len(rows) :
            Cardinality({j \in keep : rows[j]["key_norm"] = rows[i]["key_norm"]}) = 1}

\* the rows of q at the indices in keep, in order
AtIndices(q, keep) ==
    LET Idx == SelectSeq([i \in 1..Len(q) |-> i], LAMBDA i : i \in keep)
    IN  [k \in 1..Len(Idx) |-> q[Idx[k]]]

\* the long dictionary table before deduplication (build_dict_table, lines 36-68)
DictLong(dictfile) ==
    LET df0  == sanitize_df_columns(read_csv(dictfile))
        keys == key_cols_of(df0)
        df   == WithNormColumns(df0, keys)
        long == unpivot(df, descriptor_cols_of(df, keys),
                        [k \in 1..Len(keys) |-> "norm_" \o keys[k]])
    IN  [cols |-> long.cols,
         rows |-> SelectSeq(long.rows,
                            LAMBDA r : r["key_norm"] # Null /\ r["key_norm"] # "")]

\* build_dict_table: the mappings it may return, one per surviving index set
build_dict_table(dictfile) ==
    LET long == DictLong(dictfile)
    IN  {drop([cols |-> long.cols, rows |-> AtIndices(long.rows, keep)], {"alias_col"}) :
            keep \in unique(long.rows)}

\* ------------------------------------------------------------ row enricher
\* re.search(r"(20\d{2})", basename): the positions where a match starts
YearMatches(name) ==
    {i \in 1..(Len(name) - 3) :
        /\ CharAt(name, i) = "2"
        /\ CharAt(name, i + 1) = "0"
        /\ IsDigit(CharAt(name, i + 2))
        /\ IsDigit(CharAt(name, i + 3))}

\* year_from_filename raises ValueError when there is no match
HasYear(name) == YearMatches(name) # {}

\* year_from_filename: the leftmost match
year_from_filename(name) ==
    LET i == CHOOSE j \in YearMatches(name) : \A k \in YearMatches(name) : j <= k
    IN  SubSeq(name, i, i + 3)

\* mutant of select_superset: a column the file lacks is filled with "" (not null)
select_filling_empty(lf, superset) ==
    [cols |-> superset,
     rows |-> [i \in 1..Len(lf.rows) |->
                 [c \in Range(superset) |->
                    IF c \in Range(lf.cols) THEN lf.rows[i][c] ELSE ""]]]

\* lines 113-121: every superset column, cast to text, null when the file lacks it
select_superset(lf, superset) ==
    [cols |-> superset,
     rows |-> [i \in 1..Len(lf.rows) |->
                 [c \in Range(superset) |->
                    IF c \in Range(lf.cols) THEN lf.rows[i][c] ELSE Null]]]

\* with_row_index(name, offset=1): the index is the first column
with_row_index(lf, name) ==
    [cols |-> <<name>> \o lf.cols,
     rows |-> [i \in 1..Len(lf.rows) |->
                 [c \in Range(lf.cols) \cup {name} |->
                    IF c = name THEN i ELSE lf.rows[i][c]]]]

\* mutant of id_expr: the sequence number is not padded
id_expr_unpadded(ano, n) == ano \o "-" \o ToString(n)

\* line 127: ano + "-" + row_number.cast(Utf8).str.zfill(8)
id_expr(ano, n) == ano \o "-" \o zfill(ToString(n), 8)

\* the name a right-hand column gets in a join: suffix _right on a collision
JoinedName(c, leftcols) == IF c \in Range(leftcols) THEN c \o "_right" ELSE c

\* mutant of left_join: an inner join, a left row without a match is dropped
inner_join(lf, right) ==
    LET rcols == SelectSeq(right.cols, LAMBDA c : c # "key_norm")
        newcols == lf.cols \o [k \in 1..Len(rcols) |-> JoinedName(rcols[k], lf.cols)]
        Joined(l, m) ==
            [c \in Range(newcols) |->
                IF c \in Range(lf.cols) THEN l[c]
                ELSE m[CHOOSE d \in Range(rcols) : JoinedName(d, lf.cols) = c]]
    IN  [cols |-> newcols,
         rows |-> Flatten([i \in 1..Len(lf.rows) |->
                     LET l == lf.rows[i]
                         ms == SelectSeq(right.rows,
                                   LAMBDA m : l["key_norm"] # Null
                                              /\ m["key_norm"] = l["key_norm"])
                     IN  [k \in 1..Len(ms) |-> Joined(l, ms[k])]])]

\* lf.join(dict_map, on="key_norm", how="left"): one output row per matching
\* right row, one null-filled row when nothing matches; null keys never match
left_join(lf, right) ==
    LET rcols == SelectSeq(right.cols, LAMBDA c : c # "key_norm")
        newcols == lf.cols \o [k \in 1..Len(rcols) |-> JoinedName(rcols[k], lf.cols)]
        Joined(l, m) ==
            [c \in Range(newcols) |->
                IF c \in Range(lf.cols) THEN l[c]
                ELSE m[CHOOSE d \in Range(rcols) : JoinedName(d, lf.cols) = c]]
        Unmatched(l) ==
            [c \in Range(newcols) |-> IF c \in Range(lf.cols) THEN l[c] ELSE Null]
    IN  [cols |-> newcols,
         rows |-> Flatten([i \in 1..Len(lf.rows) |->
                     LET l == lf.rows[i]
                         ms == SelectSeq(right.rows,
                                   LAMBDA m : l["key_norm"] # Null
                                              /\ m["key_norm"] = l["key_norm"])
                     IN  IF Len(ms) = 0 THEN <<Unmatched(l)>>
                         ELSE [k \in 1..Len(ms) |-> Joined(l, ms[k])]])]

\* mutant of enrich: the join key is the raw value, not the normalized one
enrich_raw_key(projected_lf, ano, superset, mapping) ==
    LET lf1 == with_columns(projected_lf, "ano", lit(projected_lf, ano))
        lf2 == with_row_index(lf1, "row_number")
        lf3 == with_columns(lf2, "ID",
                   [i \in 1..Len(lf2.rows) |->
                      id_expr(lf2.rows[i]["ano"], lf2.rows[i]["row_number"])])
    IN  IF "PRINCIPIO_ATIVO" \in Range(superset)
        THEN left_join(with_columns(lf3, "key_norm", [i \in 1..Len(lf3.rows) |-> lf3.rows[i]["PRINCIPIO_ATIVO"]]),
                       mapping)
        ELSE with_columns(lf3, "key_norm", lit(lf3, Null))

\* build_lazy_for_csv after the projection (lines 123-137)
enrich(projected_lf, ano, superset, mapping) ==
    LET lf1 == with_columns(projected_lf, "ano", lit(projected_lf, ano))
        lf2 == with_row_index(lf1, "row_number")
        lf3 == with_columns(lf2, "ID",
                   [i \in 1..Len(lf2.rows) |->
                      id_expr(lf2.rows[i]["ano"], lf2.rows[i]["row_number"])])
    IN  IF "PRINCIPIO_ATIVO" \in Range(superset)
        THEN left_join(with_columns(lf3, "key_norm", normalized_col(lf3, "PRINCIPIO_ATIVO")),
                       mapping)
        ELSE with_columns(lf3, "key_norm", lit(lf3, Null))

\* build_lazy_for_csv
build_lazy_for_csv(file, superset, mapping) ==
    enrich(select_superset(read_csv(file), superset),
           year_from_filename(file.name), superset, mapping)

\* ------------------------------------------------------------ consolidator
\* pl.concat(lazy_frames, how="vertical_relaxed"): the frames share their columns
concat(frames) ==
    [cols |-> frames[1].cols,
     rows |-> Flatten([i \in 1..Len(frames) |-> frames[i].rows])]

cols_to_drop == <<"ANO_VENDA", "row_number", "key_norm", "_duplicated_0">>

\* lines 200-204: ID, ano and DESCRICAO_APRESENTACAO first, the rest in order
reorder(lf) ==
    LET first_order == SelectSeq(<<"ID", "ano", "DESCRICAO_APRESENTACAO">>,
                                 LAMBDA c : c \in Range(lf.cols))
    IN  [cols |-> first_order \o SelectSeq(lf.cols, LAMBDA c : c \notin Range(first_order)),
         rows |-> lf.rows]

\* lines 186-204: the frame that is written
consolidate(frames) ==
    LET all_lf == concat(frames)
    IN  reorder(drop(all_lf, {c \in Range(cols_to_drop) : c \in Range(all_lf.cols)}))

\* lines 214-222: per year, the number of rows whose key_norm is null
unmatched_counts(lf) ==
    {[ano |-> y,
      nao_mapeados |-> Cardinality({i \in 1..Len(lf.rows) :
                          lf.rows[i]["ano"] = y /\ lf.rows[i]["key_norm"] = Null})] :
        y \in {lf.rows[i]["ano"] :
                 i \in {j \in 1..Len(lf.rows) : lf.rows[j]["key_norm"] = Null}}}

\* ------------------------------------------------------- the filter utility
\* filter_controlled_parquet.py; the accented letters of the flag column's
\* name are written without their accents
flag_col == "Ansiolitico/Sedativo/Hipnotico"
class_cols == <<"Classe_1", "Classe_2", "Classe_3", "Classe_4">>

\* lines 19-22: the flag condition on a row; literal false without the column
cond_ahs(cols, r) ==
    IF flag_col \in Range(cols)
    THEN eq(normalize_text_expr(r[flag_col]), "sim")
    ELSE "F"

\* lines 24-27: the class condition after the first n turns of the loop
RECURSIVE cond_opio(_, _, _)
cond_opio(cols, r, n) ==
    IF n = 0 THEN "F"
    ELSE LET prev == cond_opio(cols, r, n - 1)
             c == class_cols[n]
         IN  IF c \in Range(cols)
             THEN kleene_or(prev, str_contains(normalize_text_expr(r[c]), "opio"))
             ELSE prev

\* line 29, evaluated on a row
build_filter_expr(cols, r) ==
    kleene_or(cond_ahs(cols, r), cond_opio(cols, r, Len(class_cols)))

\* LazyFrame.filter: the rows whose predicate is true, in order; a row whose
\* predicate is false or null is discarded
filter(lf) ==
    [cols |-> lf.cols,
     rows |-> SelectSeq(lf.rows, LAMBDA r : build_filter_expr(lf.cols, r) = "T")]

\* ---------------------------------------------------------------- variables
VARIABLES
    text,          \* a text value handed to normalize_key_expr
    variant,       \* a second value: text with its case or whitespace changed
    norm_text,     \* normalize_key_expr(text)
    norm_variant,  \* normalize_key_expr(variant)
    norm_twice,    \* normalize_key_expr(norm_text)
    npc,           \* position of the normalizer run
    input_dir,     \* the grouped_*.csv files of --input-dir (a set of CSV files)
    dict_file,     \* the dictionary CSV of --dict
    pc,            \* position of main()
    error,         \* the error main() ended with, "" when none
    files,         \* main: the sorted file names
    dict_map,      \* main: the mapping build_dict_table returned
    superset_cols, \* main: the sorted union of the files' columns
    projected,     \* build_lazy_for_csv: per file, lf after the projection (line 121)
    lazy_frames,   \* main: the per-file enriched frames
    all_lf,        \* main: the consolidated frame after drop and reorder
    out_parquet,   \* the --output file: <<>> when absent, else <<frame>>
    out_csv,       \* dict_unmatched_por_ano.csv: <<>> when absent, else <<rows>>
    warned,        \* the report's failure was caught and printed as a warning
    in_parquet,    \* filter: the --parquet file: <<>> when absent, else <<frame>>
    filtered,      \* filter: the --out file: <<>> when absent, else <<frame>>
    printed,       \* filter: <<>> before the statistics line, else <<kept, total>>
    fpc,           \* position of the filter utility's main()
    ferror,        \* the error the filter utility ended with, "" when none
    run,           \* the number of the current run of main() on the same inputs
    first_out      \* the --output file as the first run left it

nvars == <<text, variant, norm_text, norm_variant, norm_twice, npc>>

pvars == <<input_dir, dict_file, pc, error, files, dict_map, superset_cols,
           projected, lazy_frames, all_lf, out_parquet, out_csv, warned>>

fvars == <<in_parquet, filtered, printed, fpc, ferror>>

rvars == <<run, first_out>>

vars == <<text, variant, norm_text, norm_variant, norm_twice, npc,
          input_dir, dict_file, pc, error, files, dict_map, superset_cols,
          projected, lazy_frames, all_lf, out_parquet, out_csv, warned,
          in_parquet, filtered, printed, fpc, ferror, run, first_out>>

EmptyFrame == [cols |-> <<>>, rows |-> <<>>]

\* ------------------------------------------- the key normalizer on its own
Alphabet == {"a", "A", " ", "\t"}

RECURSIVE Texts(_)
Texts(n) ==
    IF n = 0 THEN {""}
    ELSE LET T == Texts(n - 1) IN T \cup {t \o c : t \in T, c \in Alphabet}

SwapCaseChar(c) ==
    IF UpperChar(c) # c THEN UpperChar(c)
    ELSE IF \E i \in 1..Len(UpperLetters) : CharAt(UpperLetters, i) = c
         THEN LET i == CHOOSE j \in 1..Len(UpperLetters) : CharAt(UpperLetters, j) = c
              IN  CharAt(LowerLetters, i)
         ELSE c

\* the values that differ from s in the case of one letter, in leading or
\* trailing whitespace, or in the length of one whitespace run
Variants(s) ==
    {s, " " \o s, s \o " "}
    \cup {SubSeq(s, 1, i - 1) \o SwapCaseChar(CharAt(s, i)) \o SubSeq(s, i + 1, Len(s)) :
            i \in 1..Len(s)}
    \cup {SubSeq(s, 1, i) \o SubSeq(s, i, Len(s)) :
            i \in {j \in 1..Len(s) : IsSpace(CharAt(s, j))}}
    \cup {SubSeq(s, 1, i - 1) \o SubSeq(s, i + 1, Len(s)) :
            i \in {j \in 1..Len(s) :
                      /\ IsSpace(CharAt(s, j))
                      /\ \/ j = 1
                         \/ j = Len(s)
                         \/ CharAt(s, j + 1) = CharAt(s, j)}}

FilterIdle ==
    /\ in_parquet = <<>> /\ filtered = <<>> /\ printed = <<>>
    /\ fpc = "idle" /\ ferror = ""

MainIdle ==
    /\ input_dir = {} /\ dict_file = [name |-> "", header |-> <<>>, rows |-> <<>>]
    /\ pc = "idle" /\ error = "" /\ files = <<>> /\ dict_map = EmptyFrame
    /\ superset_cols = <<>> /\ projected = <<>> /\ lazy_frames = <<>>
    /\ all_lf = EmptyFrame /\ out_parquet = <<>> /\ out_csv = <<>> /\ warned = FALSE
    /\ run = 1 /\ first_out = <<>>

NormInit ==
    /\ MainIdle
    /\ FilterIdle
    /\ text \in Texts(MaxLen)
    /\ variant \in Variants(text)
    /\ norm_text = Null
    /\ norm_variant = Null
    /\ norm_twice = Null
    /\ npc = "input"

\* both sides of the join comparison go through normalize_key_expr
NormalizeBoth ==
    /\ npc = "input"
    /\ norm_text' = normalize_key_expr(text)
    /\ norm_variant' = normalize_key_expr(variant)
    /\ npc' = "normalized"
    /\ UNCHANGED <<text, variant, norm_twice>>
    /\ UNCHANGED <<pvars, fvars, rvars>>

\* the normalized key is normalized again
NormalizeAgain ==
    /\ npc = "normalized"
    /\ norm_twice' = normalize_key_expr(norm_text)
    /\ npc' = "renormalized"
    /\ UNCHANGED <<text, variant, norm_text, norm_variant>>
    /\ UNCHANGED <<pvars, fvars, rvars>>

NormNext == NormalizeBoth \/ NormalizeAgain

\* ------------------------------------------------------------------ main()
FileNamed(n) == CHOOSE f \in input_dir : f.name = n

\* lines 159-163: the sorted grouped_*.csv files; none is fatal
ListFiles ==
    /\ pc = "start"
    /\ UNCHANGED <<nvars, fvars, rvars>>
    /\ files' = sorted({f.name : f \in input_dir})
    /\ IF input_dir = {}
       THEN pc' = "aborted" /\ error' = "Nenhum CSV encontrado"
       ELSE pc' = "listed" /\ UNCHANGED error
    /\ UNCHANGED <<input_dir, dict_file, dict_map, superset_cols, projected,
                   lazy_frames, all_lf, out_parquet, out_csv, warned>>

\* mutant of BuildDictTable: the check for alias columns is missing
BuildDictTable_unchecked ==
    /\ pc = "listed"
    /\ UNCHANGED <<nvars, fvars, rvars>>
    /\ \E m \in build_dict_table(dict_file) : dict_map' = m
    /\ pc' = "dict"
    /\ UNCHANGED <<input_dir, dict_file, error, files, superset_cols, projected,
                   lazy_frames, all_lf, out_parquet, out_csv, warned>>

\* line 166: build_dict_table; a dictionary without alias columns is fatal
BuildDictTable ==
    /\ pc = "listed"
    /\ UNCHANGED <<nvars, fvars, rvars>>
    /\ IF Len(key_cols_of(sanitize_df_columns(read_csv(dict_file)))) = 0
       THEN /\ pc' = "aborted"
            /\ error' = "Dicionario sem colunas de chave"
            /\ UNCHANGED dict_map
       ELSE /\ \E m \in build_dict_table(dict_file) : dict_map' = m
            /\ pc' = "dict"
            /\ UNCHANGED error
    /\ UNCHANGED <<input_dir, dict_file, files, superset_cols, projected,
                   lazy_frames, all_lf, out_parquet, out_csv, warned>>

\* lines 168-178: read_header per file; an empty header is fatal
ReadHeaders ==
    /\ pc = "dict"
    /\ UNCHANGED <<nvars, fvars, rvars>>
    /\ IF \E i \in 1..Len(files) : Len(CsvColumns(FileNamed(files[i]).header)) = 0
       THEN /\ pc' = "aborted"
            /\ error' = "Cabecalho vazio"
            /\ UNCHANGED superset_cols
       ELSE /\ superset_cols' =
                   sorted(UNION {Range(CsvColumns(FileNamed(files[i]).header)) :
                                    i \in 1..Len(files)})
            /\ pc' = "headers"
            /\ UNCHANGED error
    /\ UNCHANGED <<input_dir, dict_file, files, dict_map, projected,
                   lazy_frames, all_lf, out_parquet, out_csv, warned>>

\* lines 180-184: build_lazy_for_csv per file; year_from_filename raises
\* ValueError for a name without a year, which ends the run
BuildLazyFrames ==
    /\ pc = "headers"
    /\ UNCHANGED <<nvars, fvars, rvars>>
    /\ IF \E i \in 1..Len(files) : ~HasYear(files[i])
       THEN /\ pc' = "aborted"
            /\ error' = "ValueError ano"
            /\ UNCHANGED <<projected, lazy_frames>>
       ELSE /\ projected' = [i \in 1..Len(files) |->
                   select_superset(read_csv(FileNamed(files[i])), superset_cols)]
            /\ lazy_frames' = [i \in 1..Len(files) |->
                   build_lazy_for_csv(FileNamed(files[i]), superset_cols, dict_map)]
            /\ pc' = "frames"
            /\ UNCHANGED error
    /\ UNCHANGED <<input_dir, dict_file, files, dict_map, superset_cols,
                   all_lf, out_parquet, out_csv, warned>>

\* lines 186-208: concat, drop, reorder, sink_parquet
Consolidate ==
    /\ pc = "frames"
    /\ UNCHANGED <<nvars, fvars, rvars>>
    /\ all_lf' = consolidate(lazy_frames)
    /\ out_parquet' = <<all_lf'>>
    /\ pc' = "written"
    /\ UNCHANGED <<input_dir, dict_file, error, files, dict_map, superset_cols,
                   projected, lazy_frames, out_csv, warned>>

\* mutant of UnmatchedReport: no except clause, the failed report ends the run
UnmatchedReport_uncaught ==
    /\ pc = "written"
    /\ UNCHANGED <<nvars, fvars, rvars>>
    /\ IF "PRINCIPIO_ATIVO" \in Range(superset_cols)
       THEN IF "key_norm" \in Range(all_lf.cols)
            THEN out_csv' = <<unmatched_counts(all_lf)>> /\ pc' = "done" /\ UNCHANGED error
            ELSE pc' = "aborted" /\ error' = "ColumnNotFoundError" /\ UNCHANGED out_csv
       ELSE pc' = "done" /\ UNCHANGED <<out_csv, error>>
    /\ UNCHANGED <<input_dir, dict_file, files, dict_map, superset_cols,
                   projected, lazy_frames, all_lf, out_parquet, warned>>

\* lines 210-228: the report reads key_norm from all_lf; a missing column
\* raises when sink_csv resolves the plan, and the except clause prints a warning
UnmatchedReport ==
    /\ pc = "written"
    /\ UNCHANGED <<nvars, fvars, rvars>>
    /\ IF "PRINCIPIO_ATIVO" \in Range(superset_cols)
       THEN IF "key_norm" \in Range(all_lf.cols)
            THEN out_csv' = <<unmatched_counts(all_lf)>> /\ UNCHANGED warned
            ELSE warned' = TRUE /\ UNCHANGED out_csv
       ELSE UNCHANGED <<out_csv, warned>>
    /\ pc' = "done"
    /\ UNCHANGED <<input_dir, dict_file, error, files, dict_map, superset_cols,
                   projected, lazy_frames, all_lf, out_parquet>>

Next ==
    \/ ListFiles
    \/ BuildDictTable
    \/ ReadHeaders
    \/ BuildLazyFrames
    \/ Consolidate
    \/ UnmatchedReport

\* main() is run a second time on the same directory and dictionary: the
\* first run's output is kept aside for comparison, the files stay on disk
Rerun ==
    /\ pc = "done"
    /\ UNCHANGED <<nvars, fvars>>
    /\ run = 1
    /\ run' = 2
    /\ first_out' = out_parquet
    /\ pc' = "start"
    /\ files' = <<>> /\ dict_map' = EmptyFrame /\ superset_cols' = <<>>
    /\ projected' = <<>> /\ lazy_frames' = <<>> /\ all_lf' = EmptyFrame
    /\ warned' = FALSE
    /\ UNCHANGED <<input_dir, dict_file, error, out_parquet, out_csv>>

RerunNext == Next \/ Rerun

\* ------------------------------------ filter_controlled_parquet.main()
\* lines 46-51: a missing input file ends the run; else the file is scanned
ScanParquet ==
    /\ fpc = "start"
    /\ UNCHANGED <<nvars, pvars, rvars>>
    /\ IF in_parquet = <<>>
       THEN fpc' = "aborted" /\ ferror' = "Arquivo nao encontrado"
       ELSE fpc' = "scanned" /\ UNCHANGED ferror
    /\ UNCHANGED <<in_parquet, filtered, printed>>

\* lines 53-58: the filtered rows are written to --out
SinkFiltered ==
    /\ fpc = "scanned"
    /\ UNCHANGED <<nvars, pvars, rvars>>
    /\ filtered' = <<filter(in_parquet[1])>>
    /\ fpc' = "sunk"
    /\ UNCHANGED <<in_parquet, printed, ferror>>

\* lines 61-63: both counts are collected from the input file, and the
\* statistics line divides kept by total; the division raises on total = 0
PrintStats ==
    /\ fpc = "sunk"
    /\ UNCHANGED <<nvars, pvars, rvars>>
    /\ LET total == Len(in_parquet[1].rows)
           kept == Len(filter(in_parquet[1]).rows)
       IN  IF total = 0
           THEN fpc' = "failed" /\ ferror' = "ZeroDivisionError" /\ UNCHANGED printed
           ELSE fpc' = "done" /\ printed' = <<kept, total>> /\ UNCHANGED ferror
    /\ UNCHANGED <<in_parquet, filtered>>

FilterNext == ScanParquet \/ SinkFiltered \/ PrintStats

NormIdle ==
    /\ text = "" /\ variant = "" /\ norm_text = Null /\ norm_variant = Null
    /\ norm_twice = Null /\ npc = "idle"

\* ------------------------------------------------------------------ inputs
\* the cells a data row may hold under a column: a principal-substance value
\* (null, one that normalizes to A, one that normalizes to the empty key) or "v"
CellValues(col) == IF col = "PRINCIPIO_ATIVO" THEN {Null, "a", " "} ELSE {"v"}

RowsUnder(header) ==
    {r \in [1..Len(header) -> {Null, "a", " ", "v"}] :
        \A k \in 1..Len(header) : r[k] \in CellValues(header[k])}

\* the row lists of at most n rows under a header
RowLists(header, n) == UNION {[1..k -> RowsUnder(header)] : k \in 0..n}

\* the directories holding some of the named files, with at most budget data
\* rows in all, each file under one of the headers
RECURSIVE Directories(_, _, _)
Directories(names, headers, budget) ==
    IF names = {} THEN {{}}
    ELSE LET n == CHOOSE x \in names : TRUE
             rest == names \ {n}
         IN  Directories(rest, headers, budget) \cup
             UNION {UNION {{d \cup {[name |-> n, header |-> h, rows |-> r]} :
                              d \in Directories(rest, headers, budget - Len(r))} :
                           r \in RowLists(h, budget)} :
                    h \in headers}

\* data family: two files of the same year and one of another; with or
\* without the principal-substance column
DataFileNames == {"grouped_2020.csv", "grouped_2020b.csv", "grouped_2021.csv"}
DataHeaders == {<<"PRINCIPIO_ATIVO">>, <<"A">>}

\* dictionary rows of the data family: the two alias cells; the descriptor D
\* of row i is "d<i>"
AliasCells == {<<"A", Null>>, <<" ", " a">>}
DataDictionaries ==
    {[name |-> "analise_geral_medicamentos.csv",
      header |-> <<"PRINCIPIO_ATIVO", "PRINCIPIO_ATIVO_1", "D">>,
      rows |-> [i \in 1..Len(a) |-> a[i] \o <<"d" \o ToString(i)>>]] :
        a \in UNION {[1..k -> AliasCells] : k \in 0..MaxDictRows}}

\* schema family: at most one row per file; empty, repeated, colliding and
\* pipeline-owned column names; a file name without a year
SchemaFileNames == {"grouped_2020.csv", "grouped_2021.csv", "grouped_x20y.csv"}
SchemaHeaders ==
    {<<>>,
     <<"PRINCIPIO_ATIVO", "ANO_VENDA">>,
     <<"A", "D">>,
     <<"A", "", "", "">>,
     <<"ano", "ID", "key_norm">>}
SchemaDictionaries ==
    {[name |-> "analise_geral_medicamentos.csv",
      header |-> <<"PRINCIPIO_ATIVO", "PRINCIPIO_ATIVO_1", "D">>,
      rows |-> << <<"b", "A", "d1">>, <<"c", Null, "d2">> >>],
     [name |-> "analise_geral_medicamentos.csv",
      header |-> <<"D">>,
      rows |-> << <<"d1">> >>],
     [name |-> "analise_geral_medicamentos.csv",
      header |-> <<"PRINCIPIO_ATIVO_2", "D", "", "", "">>,
      rows |-> << <<" a", "d1", Null, Null, Null>> >>]}

SchemaDirectories ==
    {d \in Directories(SchemaFileNames, SchemaHeaders, Cardinality(SchemaFileNames)) :
        \A f \in d : Len(f.rows) <= 1}

Init ==
    /\ NormIdle
    /\ FilterIdle
    /\ \/ /\ input_dir \in Directories(DataFileNames, DataHeaders, MaxRows)
          /\ dict_file \in DataDictionaries
       \/ /\ input_dir \in SchemaDirectories
          /\ dict_file \in SchemaDictionaries
    /\ pc = "start" /\ error = "" /\ files = <<>> /\ dict_map = EmptyFrame
    /\ superset_cols = <<>> /\ projected = <<>> /\ lazy_frames = <<>>
    /\ all_lf = EmptyFrame /\ out_parquet = <<>> /\ out_csv = <<>> /\ warned = FALSE
    /\ run = 1 /\ first_out = <<>>

\* the datasets given to the filter utility: with and without the flag
\* column and the class columns, at most MaxRows rows; a flag that is null,
\* "sim" up to case and outer whitespace, or something else; a class that is
\* null, holds "opio" in upper case, or holds it only across a space
FilterHeaders ==
    {<<"ID">>,
     <<flag_col>>,
     <<flag_col, "Classe_1">>,
     <<"Classe_1", "Classe_4">>,
     <<flag_col, "Classe_2", "Classe_3">>}

FilterCellValues(col) ==
    IF col = flag_col THEN {Null, " SiM\t", "Nao"}
    ELSE IF col \in Range(class_cols) THEN {Null, "x OPIOide", "op io"}
    ELSE {"v"}

FilterRows(header) ==
    {r \in [Range(header) -> {Null, " SiM\t", "Nao", "x OPIOide", "op io", "v"}] :
        \A c \in Range(header) : r[c] \in FilterCellValues(c)}

\* the datasets of at most n rows under one of the headers
FilterDatasets(n) ==
    UNION {{[cols |-> h, rows |-> rs] :
               rs \in UNION {[1..k -> FilterRows(h)] : k \in 0..n}} :
           h \in FilterHeaders}

FilterInit ==
    /\ NormIdle
    /\ MainIdle
    /\ in_parquet \in {<<>>} \cup {<<d>> : d \in FilterDatasets(MaxRows)}
    /\ filtered = <<>> /\ printed = <<>> /\ fpc = "start" /\ ferror = ""

Spec == Init /\ [][Next]_vars

\* two runs on the inputs of the data family
RerunInit == Init /\ dict_file \in DataDictionaries

SpecRerun == RerunInit /\ [][RerunNext]_vars

SpecFilter == FilterInit /\ [][FilterNext]_vars

SpecNorm == NormInit /\ [][NormNext]_vars

\* ------------------------------------------------------------------ claims
Written == pc \in {"written", "done"}

\* the consolidated dataset as written
Out == out_parquet[1]

\* the value of a field of a written row; a column the schema lacks holds nothing
Field(r, c) == IF c \in DOMAIN r THEN r[c] ELSE Null

\* the number of data rows of the files before the f-th
RECURSIVE RowsBefore(_)
RowsBefore(f) ==
    IF f <= 1 THEN 0 ELSE RowsBefore(f - 1) + Len(FileNamed(files[f - 1]).rows)

AllDigits(t) == \A k \in 1..Len(t) : IsDigit(CharAt(t, k))

\* the number a string of decimal digits denotes
RECURSIVE ParseNat(_)
ParseNat(t) ==
    IF Len(t) = 0 THEN 0
    ELSE 10 * ParseNat(SubSeq(t, 1, Len(t) - 1))
         + (CHOOSE d \in 0..9 : ToString(d) = CharAt(t, Len(t)))

\* ID is YYYY-NNNNNNNN for the i-th row of a file whose name holds the year
IdOfRow(id, ano, name, i) ==
    /\ Len(id) = 13
    /\ SubSeq(id, 1, 4) = ano
    /\ Len(ano) = 4 /\ AllDigits(ano)
    /\ \E k \in 1..(Len(name) - 3) : SubSeq(name, k, k + 3) = ano
    /\ CharAt(id, 5) = "-"
    /\ AllDigits(SubSeq(id, 6, 13))
    /\ ParseNat(SubSeq(id, 6, 13)) = i

\* C1: every written row has ID = its year, a hyphen and its sequence number
\* padded to 8 digits; the rows of a file are numbered 1..n in file order,
\* restarting at 1 for every file.
C1_IdFormat ==
    Written =>
        /\ Len(Out.rows) = RowsBefore(Len(files) + 1)
        /\ \A f \in 1..Len(files) :
              \A i \in 1..Len(FileNamed(files[f]).rows) :
                 LET r == Out.rows[RowsBefore(f) + i]
                 IN  IdOfRow(r["ID"], r["ano"], files[f], i)

\* C1 witness: two files were consolidated and the numbering of the second
\* restarts at 1
C1_Witness ==
    /\ pc = "done"
    /\ Len(files) >= 2
    /\ \E i, j \in 1..Len(Out.rows) :
          /\ i < j
          /\ Out.rows[i]["ID"] = "2020-00000001"
          /\ Out.rows[j]["ID"] = "2021-00000001"

DistinctYears ==
    \A f, g \in 1..Len(files) :
        f # g => year_from_filename(files[f]) # year_from_filename(files[g])

\* C2: the rows of one source file have pairwise distinct IDs, and when no two
\* files yield the same year all written IDs are pairwise distinct.
C2_UniqueIds ==
    Written =>
        /\ \A f \in 1..Len(lazy_frames) :
              \A i, j \in 1..Len(lazy_frames[f].rows) :
                 i # j => lazy_frames[f].rows[i]["ID"] # lazy_frames[f].rows[j]["ID"]
        /\ Len(Out.rows) = RowsBefore(Len(files) + 1)
        /\ DistinctYears =>
              \A i, j \in 1..Len(Out.rows) :
                 i # j => Out.rows[i]["ID"] # Out.rows[j]["ID"]

\* C2 witness: files of distinct years, a dictionary that repeats a
\* normalized alias, and a written row that matched it
C2_Witness ==
    /\ pc = "done"
    /\ Len(files) >= 2
    /\ DistinctYears
    /\ Len(Out.rows) >= 2
    /\ Len(DictLong(dict_file).rows) > Len(dict_map.rows)
    /\ \E i \in 1..Len(Out.rows) : Field(Out.rows[i], "D") # Null

\* C3: two values that differ only in case, in leading or trailing whitespace
\* and in the length of interior whitespace runs normalize to the same key.
C3_CaseWhitespaceInvariant ==
    npc \in {"normalized", "renormalized"} => norm_text = norm_variant

\* C4: normalize_key_expr is idempotent: normalizing a normalized key returns it.
C4_Idempotent ==
    npc = "renormalized" => norm_twice = norm_text

\* C4 witness: a value that normalization changed and whose key still holds a
\* whitespace run longer than one character was normalized twice
C4_Witness ==
    /\ npc = "renormalized"
    /\ norm_text # text
    /\ \E i \in 1..(Len(norm_text) - 1) :
          IsSpace(CharAt(norm_text, i)) /\ IsSpace(CharAt(norm_text, i + 1))

DictBuilt == pc \in {"dict", "headers", "frames", "written", "done"}

\* the positions of the alias columns in the dictionary header
AliasPositions ==
    {k \in 1..Len(dict_file.header) :
        /\ dict_file.header[k] \in Range(AliasColumns)
        /\ \A j \in 1..(k - 1) : dict_file.header[j] # dict_file.header[k]}

\* the distinct non-null, non-empty normalized keys of the dictionary
AliasKeys ==
    {normalize_key_expr(dict_file.rows[i][k]) :
        i \in 1..Len(dict_file.rows), k \in AliasPositions} \ {Null, ""}

\* the first row of the long table (alias column by alias column, row by row)
\* that holds the key
FirstInLong(key) ==
    LET long == DictLong(dict_file).rows
        i == CHOOSE j \in 1..Len(long) :
                 /\ long[j]["key_norm"] = key
                 /\ \A k \in 1..(j - 1) : long[k]["key_norm"] # key
    IN  long[i]["D"]

\* the first row of the dictionary file that holds the key in any alias column
FirstInFile(key) ==
    LET Holds(i) == \E k \in AliasPositions :
                        normalize_key_expr(dict_file.rows[i][k]) = key
        i == CHOOSE j \in 1..Len(dict_file.rows) :
                 Holds(j) /\ \A k \in 1..(j - 1) : ~Holds(k)
        d == CHOOSE k \in 1..Len(dict_file.header) : dict_file.header[k] = "D"
    IN  dict_file.rows[i][d]

\* C5: the mapping holds exactly one row per distinct non-null, non-empty
\* normalized key, and that row carries the descriptor D of the first
\* occurrence of the key (first in the long table or first in the file: either
\* reading of "first-encountered" is accepted).
C5_FirstOccurrenceWins ==
    DictBuilt =>
        /\ {dict_map.rows[i]["key_norm"] : i \in 1..Len(dict_map.rows)} = AliasKeys
        /\ Len(dict_map.rows) = Cardinality(AliasKeys)
        /\ \A i \in 1..Len(dict_map.rows) :
              dict_map.rows[i]["D"] \in {FirstInLong(dict_map.rows[i]["key_norm"]),
                                        FirstInFile(dict_map.rows[i]["key_norm"])}

\* the descriptor columns of the mapping
Descriptors == Range(dict_map.cols) \ {"key_norm"}

\* the name under which the join writes a descriptor column
OutName(d) ==
    IF d \in Range(superset_cols) \cup {"ano", "row_number", "ID", "key_norm"}
    THEN d \o "_right" ELSE d

\* the descriptor columns that are part of the written schema
WrittenDescriptors == {d \in Descriptors : OutName(d) \notin Range(cols_to_drop)}

\* the mapping rows whose key is the normalized principal substance of r
Matches(r) ==
    {i \in 1..Len(dict_map.rows) :
        /\ normalize_key_expr(Field(r, "PRINCIPIO_ATIVO")) # Null
        /\ dict_map.rows[i]["key_norm"] = normalize_key_expr(Field(r, "PRINCIPIO_ATIVO"))}

\* C6: a written row whose normalized principal substance is a key of the
\* mapping carries that entry's descriptors; any other row (no such key, a
\* null or empty value, no such column) carries null in every descriptor.
C6_DescriptorsRoundTrip ==
    Written =>
        /\ "PRINCIPIO_ATIVO" \in Range(superset_cols) =>
              \A d \in WrittenDescriptors : OutName(d) \in Range(Out.cols)
        /\ \A n \in 1..Len(Out.rows) :
              LET r == Out.rows[n]
              IN  IF Matches(r) # {}
                  THEN \A i \in Matches(r) : \A d \in WrittenDescriptors :
                          Field(r, OutName(d)) = dict_map.rows[i][d]
                  ELSE \A d \in WrittenDescriptors : Field(r, OutName(d)) = Null

\* C6 witness: a written dataset with a matched row, a row whose value
\* normalizes to the empty key and a row of a file without the column
C6_Witness ==
    /\ pc = "done"
    /\ \E n \in 1..Len(Out.rows) :
          Matches(Out.rows[n]) # {} /\ Field(Out.rows[n], "D") \in {"d1", "d2"}
    /\ \E n \in 1..Len(Out.rows) :
          /\ Field(Out.rows[n], "PRINCIPIO_ATIVO") \in {" ", Null}
          /\ Field(Out.rows[n], "D") = Null

\* per year, the number of written rows whose join key matched no mapping entry
UnmatchedPerYear ==
    {[ano |-> y,
      nao_mapeados |-> Cardinality({n \in 1..Len(Out.rows) :
                          Out.rows[n]["ano"] = y /\ Matches(Out.rows[n]) = {}})] :
        y \in {Out.rows[n]["ano"] :
                 n \in {m \in 1..Len(Out.rows) : Matches(Out.rows[m]) = {}}}}

\* C7: after a consolidation whose superset holds the principal substance
\* column, the unmatched report is written and holds, per year, the number of
\* written rows whose join key matched no dictionary entry.
C7_UnmatchedReportWritten ==
    (pc = "done" /\ "PRINCIPIO_ATIVO" \in Range(superset_cols)) =>
        /\ Len(out_csv) = 1
        /\ out_csv[1] = UnmatchedPerYear

NoAliasColumn == \A k \in 1..Len(dict_file.header) :
                     dict_file.header[k] \notin Range(AliasColumns)

NoYearInName(name) ==
    ~\E k \in 1..(Len(name) - 3) :
        SubSeq(name, k, k + 1) = "20" /\ AllDigits(SubSeq(name, k + 2, k + 3))

FatalInput ==
    \/ input_dir = {}
    \/ NoAliasColumn
    \/ \E f \in input_dir : Len(f.header) = 0
    \/ \E f \in input_dir : NoYearInName(f.name)

\* C8: with no source CSV, no alias column in the dictionary, a file with an
\* empty header or a file name without a year, the run never writes the
\* consolidated file nor the unmatched report and never ends normally: it does
\* not get past the step that finds the fault, where it aborts with an error.
C8_FatalInputWritesNothing ==
    /\ FatalInput =>
          /\ Len(out_parquet) = 0
          /\ Len(out_csv) = 0
          /\ pc \in {"start", "listed", "dict", "headers", "aborted"}
          /\ pc = "aborted" => error # ""
    /\ input_dir = {} => pc \in {"start", "aborted"}
    /\ NoAliasColumn => pc \in {"start", "listed", "aborted"}
    /\ (\E f \in input_dir : Len(f.header) = 0) =>
          pc \in {"start", "listed", "dict", "aborted"}

\* C8 witness: the run was aborted by a file name without a year, after the
\* dictionary and the headers were read
C8_Witness ==
    /\ pc = "aborted"
    /\ error = "ValueError ano"
    /\ Len(dict_map.rows) > 0
    /\ Len(superset_cols) > 0
    /\ Len(out_parquet) = 0

\* a technical column, as audit_parquet_columns.py names them
IsTechnical(c) ==
    \/ c \in {"ANO_VENDA", "row_number", "key_norm"}
    \/ StartsWith(c, "_duplicated_")

\* C9: the written schema holds no technical column: not ANO_VENDA, not
\* row_number, not key_norm, and no generated "duplicated" column.
C9_NoTechnicalColumns ==
    Written => \A k \in 1..Len(Out.cols) : ~IsTechnical(Out.cols[k])

Projected == pc \in {"frames", "written", "done"}

\* the column names of a file: its header names, a repeated one renamed
FileColumns(f) ==
    {IF \A j \in 1..(k - 1) : f.header[j] # f.header[k]
     THEN f.header[k]
     ELSE f.header[k] \o "_duplicated_"
          \o ToString(Cardinality({j \in 1..(k - 1) : f.header[j] = f.header[k]}) - 1) :
        k \in 1..Len(f.header)}

\* C10: every per-file projection has exactly the columns of the superset, the
\* sorted union of the columns of all files; a column of the file keeps its
\* values under its name, a column the file lacks is all null.
C10_ProjectionExact ==
    Projected =>
        /\ Range(superset_cols) = UNION {FileColumns(f) : f \in input_dir}
        /\ \A i, j \in 1..Len(superset_cols) :
              i < j => StrLess(superset_cols[i], superset_cols[j])
        /\ Len(projected) = Len(files)
        /\ \A f \in 1..Len(files) :
              LET file == FileNamed(files[f])
              IN  /\ projected[f].cols = superset_cols
                  /\ Len(projected[f].rows) = Len(file.rows)
                  /\ \A n \in 1..Len(file.rows) :
                        /\ DOMAIN projected[f].rows[n] = Range(superset_cols)
                        /\ \A c \in Range(superset_cols) :
                              IF c \in FileColumns(file)
                              THEN \E k \in 1..Len(file.header) :
                                      projected[f].rows[n][c] = file.rows[n][k]
                              ELSE projected[f].rows[n][c] = Null

\* C10 witness: two files with different columns were projected, each with a
\* row, so each projection holds a kept column and an added null column
C10_Witness ==
    /\ pc = "frames"
    /\ \E f, g \in 1..Len(files) :
          /\ FileColumns(FileNamed(files[f])) \ FileColumns(FileNamed(files[g])) # {}
          /\ FileColumns(FileNamed(files[g])) \ FileColumns(FileNamed(files[f])) # {}
          /\ Len(projected[f].rows) > 0
          /\ Len(projected[g].rows) > 0
          /\ \E c \in Range(superset_cols) : projected[f].rows[1][c] = Null
          /\ \E c \in Range(superset_cols) : projected[f].rows[1][c] = "v"

\* C12: a second run on the same unchanged source files and dictionary writes
\* the same consolidated rows, in the same order, with the same values as the
\* first run, also when dictionary rows share a normalized key.
C12_RerunSameOutput ==
    (run = 2 /\ Written) => out_parquet = first_out

\* C13: the consolidated file is written before the report is attempted; a
\* failed report is caught and printed as a warning, the run then ends
\* normally with no error, and the file still holds what was written.
C13_ReportBestEffort ==
    /\ (out_csv # <<>> \/ warned) => out_parquet # <<>>
    /\ out_parquet # <<>> =>
          /\ pc \in {"written", "done"}
          /\ error = ""
          /\ out_parquet = <<consolidate(lazy_frames)>>
    /\ warned => pc = "done" /\ out_csv = <<>>

\* C13 witness: the report failed after rows were written; the run ended
\* normally with the warning and without the report
C13_Witness ==
    /\ pc = "done"
    /\ warned
    /\ error = ""
    /\ out_csv = <<>>
    /\ Len(out_parquet) = 1
    /\ Len(Out.rows) = MaxRows

\* the sum of the row counts of the first n per-file frames
RECURSIVE FrameRowsBefore(_)
FrameRowsBefore(n) ==
    IF n <= 1 THEN 0 ELSE FrameRowsBefore(n - 1) + Len(lazy_frames[n - 1].rows)

\* C14: every row of every source file yields exactly one row of its
\* per-file frame, whatever the dictionary holds, and the consolidated
\* dataset is the per-file frames one after the other: its row count is the
\* sum of the per-file counts.
C14_OneRowPerSourceRow ==
    Projected =>
        /\ Len(lazy_frames) = Len(files)
        /\ \A f \in 1..Len(files) :
              /\ Len(lazy_frames[f].rows) = Len(FileNamed(files[f]).rows)
              /\ \A i \in 1..Len(lazy_frames[f].rows) :
                    lazy_frames[f].rows[i]["row_number"] = i
        /\ Written =>
              /\ Len(Out.rows) = FrameRowsBefore(Len(files) + 1)
              /\ \A f \in 1..Len(files) :
                    \A i \in 1..Len(lazy_frames[f].rows) :
                       \A c \in Range(Out.cols) :
                          Out.rows[FrameRowsBefore(f) + i][c] = lazy_frames[f].rows[i][c]

\* C14 witness: two files with a row each were consolidated under a
\* dictionary that repeats a normalized key; one row matched it, one matched
\* nothing
C14_Witness ==
    /\ pc = "done"
    /\ Len(files) = 2
    /\ \A f \in 1..2 : Len(FileNamed(files[f]).rows) = 1
    /\ Len(Out.rows) = 2
    /\ Len(DictLong(dict_file).rows) > Len(dict_map.rows)
    /\ "D" \in Range(Out.cols)
    /\ \E i, j \in 1..2 : Out.rows[i]["D"] # Null /\ Out.rows[j]["D"] = Null

\* the flag value is "sim" once lowercased and trimmed
FlagIsSim(v) == v # Null /\ strip_chars(to_lowercase(v)) = "sim"

\* the class value holds "opio" in some mix of cases
ContainsOpio(v) ==
    /\ v # Null
    /\ \E k \in 1..(Len(v) - 3) : to_lowercase(SubSeq(v, k, k + 3)) = "opio"

\* the row satisfies one of the two conditions; a missing column satisfies none
Selected(cols, r) ==
    \/ flag_col \in Range(cols) /\ FlagIsSim(r[flag_col])
    \/ \E c \in Range(class_cols) \cap Range(cols) : ContainsOpio(r[c])

\* the --out file holds exactly the selected rows of the input, in order
FilterExact ==
    filtered # <<>> =>
        /\ filtered[1].cols = in_parquet[1].cols
        /\ filtered[1].rows =
              SelectSeq(in_parquet[1].rows, LAMBDA r : Selected(in_parquet[1].cols, r))

\* the statistics line was printed with the true counts
FilterCounted ==
    /\ Len(printed) = 2
    /\ printed[1] = Len(filtered[1].rows)
    /\ printed[2] = Len(in_parquet[1].rows)

\* C11: the filter's output holds exactly the input rows whose flag is "sim"
\* after lowercase and trim or one of whose classes holds "opio" in any case
\* (a null or missing value on one side never excludes a row the other side
\* selects), and the run prints the true kept and total counts.
C11_FilterExactAndCounted ==
    /\ FilterExact
    /\ fpc \in {"done", "failed"} => FilterCounted

\* a row selected by one condition while the other is null was kept
C11_NullSideKept ==
    /\ fpc = "done"
    /\ \E i \in 1..Len(filtered[1].rows) :
          LET r == filtered[1].rows[i]
          IN  /\ flag_col \in DOMAIN r /\ "Classe_2" \in DOMAIN r
              /\ r[flag_col] = Null
              /\ r["Classe_2"] = Null
              /\ r["Classe_3"] = "x OPIOide"

====
